---- MODULE Spec2Model ----
(***************************************************************************)
(* A model of the call-zen-panel utility scripts:                          *)
(*   analyze_transcripts.py            the transcript-to-record pipeline   *)
(*   scripts/generate_compliance_rules.py       the 2000-rule generator    *)
(*   scripts/generate_compliance_rules_200.py   the 200-rule generator     *)
(*                                                                         *)
(* Text is modelled as a sequence of tokens.  A token is an indivisible    *)
(* piece of text; the alphabets below are chosen so that a marker of the   *)
(* program ("1.", "Summary", ".json", "unauthor", ...) occurs in a text    *)
(* exactly where it occurs as a token (or token sequence) of the text, so  *)
(* Python's str operations are the sequence operations written here.       *)
(***************************************************************************)
EXTENDS Integers, Sequences, FiniteSets, TLC

VARIABLES
    pc,         \* analyze_transcripts.py: position of the run: "start", "main" (in
                \* main()), "loop", and at its end "done", "failed" (main() raised)
                \* or "aborted" (the module raised before main())
    apiKey,     \* analyze_transcripts.py: OPENAI_API_KEY of the environment ("" when unset)
    folder,     \* the entries of TRANSCRIPT_FOLDER, in the order the system lists them
    listing,    \* what os.listdir(TRANSCRIPT_FOLDER) returned to the run
    content,    \* the directory: filename -> what lines 39-44 get out of the file
    idx,        \* position of the for loop in listing
    analyses,   \* the list analyses of main()
    outFile,    \* case_analyses.json on disk
    prior,      \* case_analyses.json as it was before the run
    trace,      \* the run's externally visible operations, in order
    reply,      \* a reply text handed to the parsing loop
    parsed,     \* the result of the parsing loop on reply
    ppc,        \* "input" before the parsing loop ran, "parsed" after
    base,       \* data/compliance_base.json
    genOut,     \* data/compliance_rules_2000.json (OUT_FILE of both generators)
    genRun      \* which generator wrote genOut last, or how it ended

vars == <<pc, apiKey, folder, listing, content, idx, analyses, outFile, prior, trace,
          reply, parsed, ppc, base, genOut, genRun>>

mainVars == <<pc, apiKey, folder, listing, content, idx, analyses, outFile, prior, trace>>
parseVars == <<reply, parsed, ppc>>
genVars == <<base, genOut, genRun>>

(***************************************************************************)
(* Bounds of the model.                                                    *)
(***************************************************************************)
MaxReplyLen == 5
MaxFiles == 3
BaseLen == 20
VarLen == 2

(***************************************************************************)
(* Python str operations on token sequences.                               *)
(***************************************************************************)
\* the characters str.strip() removes
IsSpace(t) == t \in {" ", "\n"}

RECURSIVE LStrip(_)
LStrip(s) == IF s # <<>> /\ IsSpace(Head(s)) THEN LStrip(Tail(s)) ELSE s

RECURSIVE RStrip(_)
RStrip(s) ==
    IF s # <<>> /\ IsSpace(s[Len(s)]) THEN RStrip(SubSeq(s, 1, Len(s) - 1)) ELSE s

\* s.strip()
Strip(s) == RStrip(LStrip(s))

\* position of the first occurrence of pat in s at or after position from; 0 when none
RECURSIVE FindFrom(_, _, _)
FindFrom(s, pat, from) ==
    IF from + Len(pat) - 1 > Len(s) THEN 0
    ELSE IF SubSeq(s, from, from + Len(pat) - 1) = pat THEN from
    ELSE FindFrom(s, pat, from + 1)

\* pat in s
In(pat, s) == FindFrom(s, pat, 1) # 0

\* s.startswith(pat)
StartsWith(s, pat) == Len(s) >= Len(pat) /\ SubSeq(s, 1, Len(pat)) = pat

\* s.endswith(pat)
EndsWith(s, pat) ==
    Len(s) >= Len(pat) /\ SubSeq(s, Len(s) - Len(pat) + 1, Len(s)) = pat

\* s.replace(pat, ''), for a non-empty pat: every occurrence, leftmost first
RECURSIVE Remove(_, _)
Remove(s, pat) ==
    LET k == FindFrom(s, pat, 1) IN
    IF k = 0 THEN s
    ELSE SubSeq(s, 1, k - 1) \o Remove(SubSeq(s, k + Len(pat), Len(s)), pat)

\* s.split(sep) for a one-token sep: the pieces between the separators
RECURSIVE Split(_, _)
Split(s, sep) ==
    LET k == FindFrom(s, <<sep>>, 1) IN
    IF k = 0 THEN <<s>>
    ELSE <<SubSeq(s, 1, k - 1)>> \o Split(SubSeq(s, k + 1, Len(s)), sep)

\* str.lower() of one token
LowerTok(t) ==
    CASE t = "Positive" -> "positive"
      [] t = "POSITIVE" -> "positive"
      [] t = "Negative" -> "negative"
      [] t = "NEGATIVE" -> "negative"
      [] t = "Summary" -> "summary"
      [] t = "Severity" -> "severity"
      [] t = "Sentiment" -> "sentiment"
      [] t = "High" -> "high"
      [] t = "Low" -> "low"
      [] t = "Unauthor" -> "unauthor"
      [] t = "Payment" -> "payment"
      [] t = "TRANSACTION" -> "transaction"
      [] OTHER -> t

\* s.lower()
Lower(s) == [i \in DOMAIN s |-> LowerTok(s[i])]

\* the texts of at most n tokens of A
SeqsUpTo(A, n) == UNION {[1..k -> A] : k \in 0..n}

\* what evaluating an expression that raises IndexError leaves in its place
IndexError == <<"!IndexError">>

\* line.split(':', 1)[1]
AfterColon(line) ==
    LET k == FindFrom(line, <<":">>, 1)
        parts == IF k = 0 THEN <<line>>
                 ELSE <<SubSeq(line, 1, k - 1), SubSeq(line, k + 1, Len(line))>>
    IN IF Len(parts) >= 2 THEN parts[2] ELSE IndexError

(***************************************************************************)
(* analyze_transcripts.py, main(): the parsing loop over the reply.        *)
(***************************************************************************)
\* line.startswith('1.') or 'Summary' in line
IsSummaryLine(line) == StartsWith(line, <<"1.">>) \/ In(<<"Summary">>, line)

\* line.startswith('2.') or 'Severity' in line
IsSeverityLine(line) == StartsWith(line, <<"2.">>) \/ In(<<"Severity">>, line)

\* line.startswith('3.') or 'Sentiment' in line
IsSentimentLine(line) == StartsWith(line, <<"3.">>) \/ In(<<"Sentiment">>, line)

\* a variant of SummaryValue that splits without asking for a colon first
SummaryValueUnguarded(line) ==
    LET v == AfterColon(line) IN IF v = IndexError THEN IndexError ELSE Strip(v)

\* line.split(':', 1)[1].strip() if ':' in line else line
SummaryValue(line) ==
    IF In(<<":">>, line)
    THEN LET v == AfterColon(line) IN IF v = IndexError THEN IndexError ELSE Strip(v)
    ELSE line

\* a variant of SeverityValue that asks for "Low" before "High"
SeverityValueLowFirst(line, severity) ==
    IF In(<<"Low">>, line) THEN "Low"
    ELSE IF In(<<"High">>, line) THEN "High"
    ELSE severity

\* if 'High' in line: severity = "High" / elif 'Low' in line: severity = "Low"
SeverityValue(line, severity) ==
    IF In(<<"High">>, line) THEN "High"
    ELSE IF In(<<"Low">>, line) THEN "Low"
    ELSE severity

\* a variant of SentimentValue that compares without line.lower()
SentimentValueCaseSensitive(line, sentiment) ==
    IF In(<<"positive">>, line) THEN "positive"
    ELSE IF In(<<"negative">>, line) THEN "negative"
    ELSE sentiment

\* if 'positive' in line.lower(): ... / elif 'negative' in line.lower(): ...
SentimentValue(line, sentiment) ==
    IF In(<<"positive">>, Lower(line)) THEN "positive"
    ELSE IF In(<<"negative">>, Lower(line)) THEN "negative"
    ELSE sentiment

\* summary, severity, sentiment before the loop; raised: an exception left the loop
ParseStart == [summary |-> <<>>, severity |-> "Medium", sentiment |-> "neutral",
               raised |-> FALSE]

\* a variant of ParseLine that keeps the first summary it found
ParseLineFirstSummary(st, line) ==
    IF st.raised THEN st
    ELSE IF IsSummaryLine(line)
    THEN LET v == SummaryValue(line) IN
         IF v = IndexError THEN [st EXCEPT !.raised = TRUE]
         ELSE IF st.summary # <<>> THEN st
         ELSE [st EXCEPT !.summary = v]
    ELSE IF IsSeverityLine(line)
    THEN [st EXCEPT !.severity = SeverityValue(line, st.severity)]
    ELSE IF IsSentimentLine(line)
    THEN [st EXCEPT !.sentiment = SentimentValue(line, st.sentiment)]
    ELSE st

\* one iteration of "for line in lines"
ParseLine(st, line) ==
    IF st.raised THEN st
    ELSE IF IsSummaryLine(line)
    THEN LET v == SummaryValue(line) IN
         IF v = IndexError THEN [st EXCEPT !.raised = TRUE]
         ELSE [st EXCEPT !.summary = v]
    ELSE IF IsSeverityLine(line)
    THEN [st EXCEPT !.severity = SeverityValue(line, st.severity)]
    ELSE IF IsSentimentLine(line)
    THEN [st EXCEPT !.sentiment = SentimentValue(line, st.sentiment)]
    ELSE st

RECURSIVE ParseLines(_, _)
ParseLines(st, lines) ==
    IF lines = <<>> THEN st ELSE ParseLines(ParseLine(st, Head(lines)), Tail(lines))

\* lines = result.strip().split('\n'), then the loop
ParseReply(result) == ParseLines(ParseStart, Split(Strip(result), "\n"))

(***************************************************************************)
(* The reply texts the parsing loop is run on: every text of at most       *)
(* MaxReplyLen tokens over each of three alphabets.                        *)
(***************************************************************************)
SummaryAlphabet == {"1.", "Summary", ":", " ", "\n", "x"}
SeverityAlphabet == {"Summary", "2.", "Severity", "High", "Low", " ", "\n"}
SentimentAlphabet == {"1.", "Severity", "3.", "Sentiment", "positive", "Negative", " ", "\n"}

Replies ==
    SeqsUpTo(SummaryAlphabet, MaxReplyLen)
        \cup SeqsUpTo(SeverityAlphabet, MaxReplyLen)
        \cup SeqsUpTo(SentimentAlphabet, MaxReplyLen)

\* the variables of the other scripts, at rest
MainIdle ==
    /\ pc = "off" /\ apiKey = "" /\ folder = <<>> /\ listing = <<>> /\ content = <<>> /\ idx = 1
    /\ analyses = <<>> /\ outFile = <<>> /\ prior = <<>> /\ trace = <<>>
ParseIdle == reply = <<>> /\ parsed = ParseStart /\ ppc = "off"
GenIdle == base = <<>> /\ genOut = <<>> /\ genRun = "off"

InitParse == reply \in Replies /\ parsed = ParseStart /\ ppc = "input" /\ MainIdle /\ GenIdle

\* the parsing loop of main() run on reply
Parse ==
    /\ ppc = "input"
    /\ parsed' = ParseReply(reply)
    /\ ppc' = "parsed"
    /\ UNCHANGED <<reply, mainVars, genVars>>

NextParse == Parse

SpecParse == InitParse /\ [][NextParse]_vars

(***************************************************************************)
(* analyze_transcripts.py: the environment of a run.                       *)
(***************************************************************************)
JsonExt == <<".json">>
TranscriptPrefix == <<"trans", "cript_">>

\* the names a transcript folder is populated with
FileNames ==
    { <<"trans", "cript_", "a", ".json">>,
      <<"b", ".json">>,
      <<"trans", "cript_", "a", ".json", "trans", "cript_", "b", ".json">>,
      <<"trans", ".json", "cript_", "b", ".json">>,
      <<"trans", "cript_", "c", ".json", ".bak">> }

\* what lines 39-44 get out of a file: a JSON object, or an exception
\* (unreadable file, malformed JSON, JSON that is no object)
FullCase == [loads |-> TRUE,
             data |-> [call_transcript |-> "t1", customer_unique_id |-> "c1",
                       customer_name |-> "n1", support_agent_name |-> "g1"]]
PartialCase == [loads |-> TRUE, data |-> [customer_name |-> "n2"]]
BadCase == [loads |-> FALSE, data |-> [customer_name |-> ""]]
CasePool == {FullCase, PartialCase, BadCase}

\* the replies response.choices[0].message.content is drawn from
SampleReplies ==
    { <<"1.", " ", "Summary", ":", " ", "x", "\n", "2.", " ", "Severity", ":", " ",
        "High", "\n", "3.", " ", "Sentiment", ":", " ", "Negative">>,
      <<"x">> }

\* case_analyses.json: absent, a complete JSON array of records, or the cut-off
\* text open(..., 'w') and an interrupted json.dump leave
FileAbsent == [state |-> "absent", recs |-> <<>>]
FileOf(recs) == [state |-> "complete", recs |-> recs]
FileCut(recs) == [state |-> "cut", recs |-> recs]

OldRecord == [id |-> <<"old">>, customerId |-> "c0", customerName |-> "n0",
              agentName |-> "g0", caseSummary |-> <<"x">>, sentiment |-> "neutral",
              severity |-> "Medium", timestamp |-> "Recently analyzed"]

PriorFiles == {FileAbsent, FileOf(<<OldRecord>>)}

\* the sequences without repetition of at most n elements of S
Listings(S, n) ==
    {l \in SeqsUpTo(S, n) : \A i, j \in DOMAIN l : i # j => l[i] # l[j]}

Range(f) == {f[i] : i \in DOMAIN f}

(***************************************************************************)
(* analyze_transcripts.py: main().                                         *)
(***************************************************************************)
\* a variant of IsCaseFile that asks for '.json' anywhere in the name
IsCaseFileAnywhere(filename) == In(JsonExt, filename)

\* filename.endswith('.json')
IsCaseFile(filename) == EndsWith(filename, JsonExt)

\* filename.replace('.json', '').replace('transcript_', '')
CaseId(filename) == Remove(Remove(filename, JsonExt), TranscriptPrefix)

\* data.get(key, default)
DictGet(data, key, default) == IF key \in DOMAIN data THEN data[key] ELSE default

\* the dict analysis of lines 65-74
MakeAnalysis(filename, data, st) ==
    [id |-> CaseId(filename),
     customerId |-> DictGet(data, "customer_unique_id", ""),
     customerName |-> DictGet(data, "customer_name", ""),
     agentName |-> DictGet(data, "support_agent_name", ""),
     caseSummary |-> st.summary,
     sentiment |-> st.sentiment,
     severity |-> st.severity,
     timestamp |-> "Recently analyzed"]

Event(op, filename) == [op |-> op, file |-> filename]

InitMain ==
    /\ pc = "start"
    /\ apiKey \in {"", "sk-key"}
    /\ folder \in Listings(FileNames, MaxFiles)
    /\ listing = <<>>
    \* a file that is never opened holds nothing of interest
    /\ content \in {c \in [Range(folder) -> CasePool] :
                        \A f \in Range(folder) : ~IsCaseFile(f) => c[f] = BadCase}
    /\ idx = 1
    /\ analyses = <<>>
    /\ prior \in PriorFiles
    /\ outFile = prior
    /\ trace = <<>>
    /\ ParseIdle /\ GenIdle

\* lines 10-14: the module's credential check
Startup ==
    /\ pc = "start"
    /\ pc' = IF apiKey = "" THEN "aborted" ELSE "main"
    /\ UNCHANGED <<apiKey, folder, listing, content, idx, analyses, outFile, prior, trace,
                   parseVars, genVars>>

\* lines 36-37: analyses = [] and os.listdir
ListDir ==
    /\ pc = "main"
    /\ pc' = "loop"
    /\ listing' = folder
    /\ idx' = 1
    /\ analyses' = <<>>
    /\ UNCHANGED <<apiKey, folder, content, outFile, prior, trace, parseVars, genVars>>

\* line 37: os.listdir raises
ListDirFails ==
    /\ pc = "main"
    /\ pc' = "failed"
    /\ UNCHANGED <<apiKey, folder, listing, content, idx, analyses, outFile, prior, trace,
                   parseVars, genVars>>

\* line 38 false: the loop moves on
SkipFile ==
    /\ pc = "loop"
    /\ idx <= Len(listing)
    /\ ~IsCaseFile(listing[idx])
    /\ idx' = idx + 1
    /\ UNCHANGED <<pc, apiKey, folder, listing, content, analyses, outFile, prior, trace,
                   parseVars, genVars>>

\* lines 38-76: one file loaded, analysed, parsed and appended (an exception
\* of the parsing loop would end the run after the analysis call)
ProcessFile ==
    /\ pc = "loop"
    /\ idx <= Len(listing)
    /\ IsCaseFile(listing[idx])
    /\ content[listing[idx]].loads
    /\ \E result \in SampleReplies :
        LET f == listing[idx]
            st == ParseReply(result)
        IN IF st.raised
           THEN /\ trace' = trace \o <<Event("load", f), Event("api", f)>>
                /\ pc' = "failed"
                /\ UNCHANGED <<analyses, idx>>
           ELSE /\ analyses' = Append(analyses, MakeAnalysis(f, content[f].data, st))
                /\ trace' = trace \o <<Event("load", f), Event("api", f),
                                       Event("append", f)>>
                /\ idx' = idx + 1
                /\ pc' = pc
    /\ UNCHANGED <<apiKey, folder, listing, content, outFile, prior, parseVars, genVars>>

\* lines 39-44 raise: the run ends
LoadFails ==
    /\ pc = "loop"
    /\ idx <= Len(listing)
    /\ IsCaseFile(listing[idx])
    /\ ~content[listing[idx]].loads
    /\ pc' = "failed"
    /\ UNCHANGED <<apiKey, folder, listing, content, idx, analyses, outFile, prior, trace,
                   parseVars, genVars>>

\* line 47 raises (the request fails), or line 50 does (the reply holds no text)
AnalyzeFails ==
    /\ pc = "loop"
    /\ idx <= Len(listing)
    /\ IsCaseFile(listing[idx])
    /\ content[listing[idx]].loads
    /\ trace' = trace \o <<Event("load", listing[idx]), Event("api", listing[idx])>>
    /\ pc' = "failed"
    /\ UNCHANGED <<apiKey, folder, listing, content, idx, analyses, outFile, prior,
                   parseVars, genVars>>

\* a variant of Finalize that does not wait for the loop to end
FinalizeEarly ==
    /\ pc = "loop"
    /\ outFile' = FileOf(analyses)
    /\ trace' = Append(trace, Event("write", <<>>))
    /\ pc' = "done"
    /\ UNCHANGED <<apiKey, folder, listing, content, idx, analyses, prior, parseVars, genVars>>

\* lines 79-82: the loop is over, open(..., 'w') and json.dump succeed
Finalize ==
    /\ pc = "loop"
    /\ idx > Len(listing)
    /\ outFile' = FileOf(analyses)
    /\ trace' = Append(trace, Event("write", <<>>))
    /\ pc' = "done"
    /\ UNCHANGED <<apiKey, folder, listing, content, idx, analyses, prior, parseVars, genVars>>

\* line 79 raises: the file cannot be opened for writing
OpenFails ==
    /\ pc = "loop"
    /\ idx > Len(listing)
    /\ pc' = "failed"
    /\ UNCHANGED <<apiKey, folder, listing, content, idx, analyses, outFile, prior, trace,
                   parseVars, genVars>>

\* line 80 raises after line 79 emptied the file: json.dump wrote the text of
\* some of the records and no more
DumpFails ==
    /\ pc = "loop"
    /\ idx > Len(listing)
    /\ \E n \in 0..Len(analyses) : outFile' = FileCut(SubSeq(analyses, 1, n))
    /\ trace' = Append(trace, Event("write", <<>>))
    /\ pc' = "failed"
    /\ UNCHANGED <<apiKey, folder, listing, content, idx, analyses, prior, parseVars, genVars>>

Next ==
    \/ Startup
    \/ ListDir
    \/ ListDirFails
    \/ SkipFile
    \/ ProcessFile
    \/ LoadFails
    \/ AnalyzeFails
    \/ Finalize
    \/ OpenFails
    \/ DumpFails

Spec == InitMain /\ [][Next]_vars

\* the run of main() and the parsing loop on every reply text, side by side
InitAll == InitMain \/ InitParse
NextAll == Next \/ NextParse
SpecAll == InitAll /\ [][NextAll]_vars

(***************************************************************************)
(* scripts/generate_compliance_rules.py and                                *)
(* scripts/generate_compliance_rules_200.py.                               *)
(***************************************************************************)
COUNT == 200
Count2000 == 2000

\* str(n) of an f-string, for n >= 0
DigitTok(d) ==
    CASE d = 0 -> "0" [] d = 1 -> "1" [] d = 2 -> "2" [] d = 3 -> "3" [] d = 4 -> "4"
      [] d = 5 -> "5" [] d = 6 -> "6" [] d = 7 -> "7" [] d = 8 -> "8" [] d = 9 -> "9"

RECURSIVE Decimal(_)
Decimal(n) ==
    IF n < 10 THEN <<DigitTok(n)>> ELSE Append(Decimal(n \div 10), DigitTok(n % 10))

\* sep.join(xs)
RECURSIVE Join(_, _)
Join(xs, sep) ==
    IF xs = <<>> THEN <<>>
    ELSE IF Len(xs) = 1 THEN xs[1]
    ELSE xs[1] \o sep \o Join(Tail(xs), sep)

\* a variant of Dedupe that keeps every entry
DedupeNot(xs) == xs

\* list(dict.fromkeys(xs)): the first occurrence of every entry, in order
RECURSIVE Dedupe(_)
Dedupe(xs) ==
    IF xs = <<>> THEN <<>>
    ELSE LET front == Dedupe(SubSeq(xs, 1, Len(xs) - 1))
             last == xs[Len(xs)]
         IN IF \E i \in DOMAIN front : front[i] = last THEN front ELSE Append(front, last)

\* [k for k in xs if k]
NonEmptyOnly(xs) == SelectSeq(xs, LAMBDA k : k # <<>>)

Modifiers ==
    << <<>>,
       <<" ", "-", " ", "voice channel">>,
       <<" ", "-", " ", "mobile app">>,
       <<" ", "-", " ", "web portal">>,
       <<" ", "-", " ", "third-party processor">>,
       <<" ", "-", " ", "escalated case">>,
       <<" ", "-", " ", "repeated occurrence">>,
       <<" ", "-", " ", "seasonal spike">>,
       <<" ", "-", " ", "high-value customer">>,
       <<" ", "-", " ", "regulatory notice">> >>

Unauthorised == <<"unauthor", "ised">>
NotRecognized == <<"not", " ", "recognized">>
Fraudulent == <<"fraudulent">>
Suspicious == <<"suspicious">>
PaymentFailedSynonyms ==
    << <<"payment", " ", "processing", " ", "error">>,
       <<"payment", " ", "not", " ", "processed">>,
       <<"transaction", " ", "failed">> >>

\* synonyms of generate_compliance_rules.py
Synonyms2000(key) ==
    IF key = "unauthorized"
    THEN <<Unauthorised, NotRecognized, NotRecognized, Fraudulent, Suspicious>>
    ELSE IF key = "payment failed" THEN PaymentFailedSynonyms
    ELSE <<>>

\* synonyms of generate_compliance_rules_200.py
Synonyms200(key) ==
    IF key = "unauthorized"
    THEN <<Unauthorised, NotRecognized, Fraudulent, Suspicious>>
    ELSE IF key = "payment failed" THEN PaymentFailedSynonyms
    ELSE <<>>

RuleFields == {"id", "title", "category", "description", "keywords", "severity",
               "sample_violations"}

\* generate_compliance_rules.py: the keywords after lines 45-48
Keywords2000(keywords) ==
    LET first == IF In(<<"unauthor", "ized">>, keywords[1])
                 THEN keywords \o Synonyms2000("unauthorized")
                 ELSE keywords
    IN IF In(<<"payment", " ", "failed">>, Join(first, <<" ">>))
       THEN first \o Synonyms2000("payment failed")
       ELSE first

\* generate_compliance_rules.py: iteration i of the loop raises (a missing key of
\* the base rule, or keywords[0] of an empty list)
Raises2000(b, i) ==
    LET base_rule == b[(i % Len(b)) + 1] IN
    \/ RuleFields \ DOMAIN base_rule # {}
    \/ base_rule["keywords"] = <<>>

\* generate_compliance_rules.py: new_rule of iteration i
Rule2000(b, i) ==
    LET base_rule == b[(i % Len(b)) + 1]
        mod == Modifiers[(i % Len(Modifiers)) + 1]
    IN [id |-> base_rule["id"] \o <<"-">> \o Decimal(i + 1),
        title |-> base_rule["title"] \o mod,
        category |-> base_rule["category"],
        description |-> base_rule["description"] \o mod,
        keywords |-> Keywords2000(base_rule["keywords"]),
        severity |-> base_rule["severity"],
        sample_violations |-> base_rule["sample_violations"]]

\* generate_compliance_rules_200.py: new_keywords after the loop of lines 32-37
RECURSIVE Expand200(_)
Expand200(keywords) ==
    IF keywords = <<>> THEN <<>>
    ELSE LET kw == Head(keywords) IN
         <<kw>>
         \o (IF In(<<"unauthor">>, Lower(kw)) THEN Synonyms200("unauthorized") ELSE <<>>)
         \o (IF In(<<"payment">>, Lower(kw)) \/ In(<<"transaction">>, Lower(kw))
             THEN Synonyms200("payment failed") ELSE <<>>)
         \o Expand200(Tail(keywords))

\* generate_compliance_rules_200.py: the keywords after line 39
Keywords200(keywords) == Dedupe(NonEmptyOnly(Expand200(Dedupe(keywords))))

\* generate_compliance_rules_200.py: iteration i of the loop raises
Raises200(b, i) ==
    LET base_rule == b[(i % Len(b)) + 1] IN {"id", "title"} \ DOMAIN base_rule # {}

\* generate_compliance_rules_200.py: new_rule of iteration i
Rule200(b, i) ==
    LET base_rule == b[(i % Len(b)) + 1]
        mod == Modifiers[(i % Len(Modifiers)) + 1]
    IN [id |-> base_rule["id"] \o <<"-">> \o Decimal(i + 1),
        title |-> base_rule["title"] \o mod,
        category |-> DictGet(base_rule, "category", <<>>),
        description |-> Strip(DictGet(base_rule, "description", <<>>) \o mod),
        keywords |-> Keywords200(DictGet(base_rule, "keywords", <<>>)),
        severity |-> DictGet(base_rule, "severity", <<"Medium">>),
        sample_violations |-> DictGet(base_rule, "sample_violations", <<>>)]

\* the base rules the base file is populated with
RulePool ==
    { [id |-> <<"R">>, title |-> <<"t">>, category |-> <<"fraud">>,
       description |-> <<"d">>, severity |-> <<"High">>, sample_violations |-> <<>>,
       keywords |-> << <<"Unauthor", "ized", " ", "transaction">>, <<"refund">> >>],
      [id |-> <<"R", "-", "1">>, title |-> <<"t">>, category |-> <<"billing">>,
       description |-> <<"d">>, severity |-> <<"Low">>, sample_violations |-> << <<"v">> >>,
       keywords |-> << <<"payment", " ", "failed">>, <<"transaction", " ", "failed">> >>],
      [id |-> <<"R">>, title |-> <<"t">>, category |-> <<"fraud">>,
       description |-> <<>>, severity |-> <<"High">>, sample_violations |-> <<>>,
       keywords |-> << <<"unauthor", "ized">>, <<"unauthor", "ised">> >>],
      [id |-> <<"Q">>, title |-> <<"t">>],
      [id |-> <<"Q">>],
      [id |-> <<"Q">>, title |-> <<"t">>, category |-> <<"other">>,
       description |-> <<"d">>, severity |-> <<"Low">>, sample_violations |-> <<>>,
       keywords |-> <<>>],
      [id |-> <<"Q">>, title |-> <<"t">>, category |-> <<"other">>,
       description |-> <<"d">>, severity |-> <<"Low">>, sample_violations |-> <<>>,
       keywords |-> << <<"refund">>, <<>>, <<"refund">> >>] }

FillerRule ==
    [id |-> <<"F">>, title |-> <<"t">>, category |-> <<"other">>,
     description |-> <<"d">>, severity |-> <<"Medium">>, sample_violations |-> <<>>,
     keywords |-> << <<"refund">> >>]

\* the base files: BaseLen rules, the first VarLen of them any rules of the pool
BaseLists ==
    {[j \in 1..BaseLen |-> IF j <= VarLen THEN v[j] ELSE FillerRule] :
        v \in [1..VarLen -> RulePool]}

InitGen ==
    /\ base \in BaseLists
    /\ genOut = <<>>
    /\ genRun = "none"
    /\ MainIdle /\ ParseIdle

\* generate_compliance_rules_200.py, run to its end
Generate200 ==
    /\ genRun # "off"
    /\ IF \E i \in 0..(COUNT - 1) : Raises200(base, i)
       THEN genRun' = "raised200" /\ UNCHANGED genOut
       ELSE /\ genOut' = [k \in 1..COUNT |-> Rule200(base, k - 1)]
            /\ genRun' = "wrote200"
    /\ UNCHANGED <<base, mainVars, parseVars>>

\* generate_compliance_rules.py, run to its end
Generate2000 ==
    /\ genRun # "off"
    /\ IF \E i \in 0..(Count2000 - 1) : Raises2000(base, i)
       THEN genRun' = "raised2000" /\ UNCHANGED genOut
       ELSE /\ genOut' = [k \in 1..Count2000 |-> Rule2000(base, k - 1)]
            /\ genRun' = "wrote2000"
    /\ UNCHANGED <<base, mainVars, parseVars>>

NextGen == Generate200 \/ Generate2000

SpecGen == InitGen /\ [][NextGen]_vars

(***************************************************************************)
(* What the specification says of a reply, stated on the text itself.      *)
(***************************************************************************)
SetMax(S) == CHOOSE x \in S : \A y \in S : y <= x
SetMin(S) == CHOOSE x \in S : \A y \in S : x <= y

\* t holds the token tok
Has(t, tok) == \E i \in DOMAIN t : t[i] = tok

\* t without the whitespace before its first and after its last visible token
TrimmedText(t) ==
    LET vis == {i \in DOMAIN t : t[i] \notin {" ", "\n"}} IN
    IF vis = {} THEN <<>> ELSE SubSeq(t, SetMin(vis), SetMax(vis))

\* the lines of t: the stretches between its line breaks
TextLines(t) ==
    LET brk == {0} \cup {i \in DOMAIN t : t[i] = "\n"} \cup {Len(t) + 1}
        kth(k) == CHOOSE x \in brk : Cardinality({y \in brk : y < x}) = k - 1
    IN [k \in 1..(Cardinality(brk) - 1) |-> SubSeq(t, kth(k) + 1, kth(k + 1) - 1)]

MarksSummary(l) == (l # <<>> /\ l[1] = "1.") \/ Has(l, "Summary")
MarksSeverity(l) == (l # <<>> /\ l[1] = "2.") \/ Has(l, "Severity")
MarksSentiment(l) == (l # <<>> /\ l[1] = "3.") \/ Has(l, "Sentiment")

\* the summary the last summary line of ls gives
StatedSummary(ls) ==
    LET m == {k \in DOMAIN ls : MarksSummary(ls[k])} IN
    IF m = {} THEN <<>>
    ELSE LET l == ls[SetMax(m)]
             c == {i \in DOMAIN l : l[i] = ":"}
         IN IF c = {} THEN l ELSE TrimmedText(SubSeq(l, SetMin(c) + 1, Len(l)))

\* the severity the lines sev of ls give: the last one holding High or Low decides
StatedSeverity(ls, sev) ==
    LET d == {k \in sev : Has(ls[k], "High") \/ Has(ls[k], "Low")} IN
    IF d = {} THEN "Medium"
    ELSE IF Has(ls[SetMax(d)], "High") THEN "High" ELSE "Low"

\* l holds word in some letter case
HasAnyCase(l, word) ==
    \E i \in DOMAIN l :
        \/ l[i] = word
        \/ word = "positive" /\ l[i] \in {"Positive", "POSITIVE"}
        \/ word = "negative" /\ l[i] \in {"Negative", "NEGATIVE"}

\* the sentiment the lines sen of ls give: the last one holding either word decides
StatedSentiment(ls, sen) ==
    LET d == {k \in sen : HasAnyCase(ls[k], "positive") \/ HasAnyCase(ls[k], "negative")} IN
    IF d = {} THEN "neutral"
    ELSE IF HasAnyCase(ls[SetMax(d)], "positive") THEN "positive" ELSE "negative"

RawLines == TextLines(reply)
TrimmedLines == TextLines(TrimmedText(reply))

\* C2, as stated: every line of the reply that starts with "2." or contains
\* "Severity" is a severity line; the last severity line holding "High" or "Low"
\* decides (High before Low), and the severity is Medium when there is none.
C2_EveryMarkedLineIsSeverityLine ==
    ppc = "parsed" =>
        parsed.severity =
            StatedSeverity(RawLines, {k \in DOMAIN RawLines : MarksSeverity(RawLines[k])})

\* C2, amended: the lines are those of the reply with its leading and trailing
\* whitespace removed, and a line that starts with "1." or contains "Summary" is
\* no severity line; of the other lines that start with "2." or contain
\* "Severity", the last one holding "High" or "Low" decides (High before Low),
\* and the severity is Medium when there is none.
C2_SeverityOfNonSummaryLines ==
    ppc = "parsed" =>
        parsed.severity =
            StatedSeverity(TrimmedLines,
                {k \in DOMAIN TrimmedLines :
                    MarksSeverity(TrimmedLines[k]) /\ ~MarksSummary(TrimmedLines[k])})

\* a reply with a severity line holding "High" followed by one holding only "Low"
C2_Witness ==
    /\ ppc = "parsed"
    /\ parsed.severity = "Low"
    /\ \E j, k \in DOMAIN TrimmedLines :
        /\ j < k
        /\ MarksSeverity(TrimmedLines[j]) /\ ~MarksSummary(TrimmedLines[j])
        /\ Has(TrimmedLines[j], "High")
        /\ MarksSeverity(TrimmedLines[k]) /\ ~MarksSummary(TrimmedLines[k])
        /\ Has(TrimmedLines[k], "Low")

\* C3, as stated: every line of the reply that starts with "3." or contains
\* "Sentiment" is a sentiment line, giving positive or negative by the word it
\* holds in any letter case; the sentiment is neutral when no such line decides.
C3_EveryMarkedLineIsSentimentLine ==
    ppc = "parsed" =>
        parsed.sentiment =
            StatedSentiment(RawLines, {k \in DOMAIN RawLines : MarksSentiment(RawLines[k])})

\* C3, amended: the lines are those of the reply with its leading and trailing
\* whitespace removed, and a line that is a summary line (starts with "1." or
\* contains "Summary") or a severity line (starts with "2." or contains
\* "Severity") is no sentiment line; of the other lines that start with "3." or
\* contain "Sentiment", the last one holding "positive" or "negative" in any
\* letter case decides (positive first), and the sentiment is neutral otherwise.
C3_SentimentOfRemainingLines ==
    ppc = "parsed" =>
        parsed.sentiment =
            StatedSentiment(TrimmedLines,
                {k \in DOMAIN TrimmedLines :
                    /\ MarksSentiment(TrimmedLines[k])
                    /\ ~MarksSummary(TrimmedLines[k])
                    /\ ~MarksSeverity(TrimmedLines[k])})

\* a reply whose sentiment line holds "Negative", capitalised
C3_Witness ==
    /\ ppc = "parsed"
    /\ parsed.sentiment = "negative"
    /\ \E k \in DOMAIN TrimmedLines :
        /\ MarksSentiment(TrimmedLines[k])
        /\ ~MarksSummary(TrimmedLines[k]) /\ ~MarksSeverity(TrimmedLines[k])
        /\ Has(TrimmedLines[k], "Negative")

\* C4, as stated: caseSummary comes from the last line of the reply that starts
\* with "1." or contains "Summary": the trimmed text after its first colon, or
\* the whole line unchanged when it has no colon; it is empty when no line matches.
C4_SummaryFromLastLineOfReply ==
    ppc = "parsed" => parsed.summary = StatedSummary(RawLines)

\* C4, amended: the same, with the lines taken from the reply after its leading
\* and trailing whitespace has been removed.
C4_SummaryFromLastLineOfTrimmedReply ==
    ppc = "parsed" => parsed.summary = StatedSummary(TrimmedLines)

\* a reply with two summary lines, the last one with a colon and text after it
C4_Witness ==
    /\ ppc = "parsed"
    /\ parsed.summary # <<>>
    /\ \E j, k \in DOMAIN TrimmedLines :
        /\ j < k
        /\ MarksSummary(TrimmedLines[j])
        /\ MarksSummary(TrimmedLines[k])
        /\ Has(TrimmedLines[k], ":")
        /\ TrimmedLines[j] # TrimmedLines[k]
        /\ \A n \in DOMAIN TrimmedLines : n > k => ~MarksSummary(TrimmedLines[n])

\* C5: for every reply text the parsing loop ends without raising, with a
\* sentiment among positive, neutral, negative and a severity among High,
\* Medium, Low, and so has every record appended to the output collection.
C5_ParsingTotalWithinEnums ==
    /\ ppc = "parsed" =>
        /\ ~parsed.raised
        /\ parsed.sentiment \in {"positive", "neutral", "negative"}
        /\ parsed.severity \in {"High", "Medium", "Low"}
    /\ \A k \in DOMAIN analyses :
        /\ analyses[k].sentiment \in {"positive", "neutral", "negative"}
        /\ analyses[k].severity \in {"High", "Medium", "Low"}

\* the parsing loop ran on a reply with a summary line that has no colon
C5_Witness ==
    /\ ppc = "parsed"
    /\ \E k \in DOMAIN TrimmedLines :
        MarksSummary(TrimmedLines[k]) /\ ~Has(TrimmedLines[k], ":")

(***************************************************************************)
(* What the specification says of a run of main().                         *)
(***************************************************************************)
EndsInJson(f) == f # <<>> /\ f[Len(f)] = ".json"

\* the listed filenames that end in ".json", in listing order
CaseFiles == SelectSeq(listing, EndsInJson)

\* a field of the input record of file f, the empty string when it is absent
FieldOf(f, key) ==
    IF key \in DOMAIN content[f].data THEN content[f].data[key] ELSE ""

IsApi(e) == e.op = "api"
IsLoad(e) == e.op = "load"
IsAppend(e) == e.op = "append"
IsWrite(e) == e.op = "write"
FilesOf(evs) == [i \in DOMAIN evs |-> evs[i].file]
IsPrefix(a, b) == Len(a) <= Len(b) /\ a = SubSeq(b, 1, Len(a))

\* the filename without a final ".json" and without a leading "transcript_"
StatedCaseId(f) ==
    LET stem == IF EndsInJson(f) THEN SubSeq(f, 1, Len(f) - 1) ELSE f IN
    IF Len(stem) >= 2 /\ stem[1] = "trans" /\ stem[2] = "cript_"
    THEN SubSeq(stem, 3, Len(stem))
    ELSE stem

\* C1: a run that completes leaves exactly one record per listed filename that
\* ends in ".json", in listing order, none for another filename, and record k
\* carries customerId, customerName and agentName of the k-th such file, the
\* empty string standing for an absent field.
C1_OneRecordPerCaseFile ==
    pc = "done" =>
        /\ Len(analyses) = Len(CaseFiles)
        /\ outFile.recs = analyses
        /\ \A k \in DOMAIN analyses :
            /\ analyses[k].customerId = FieldOf(CaseFiles[k], "customer_unique_id")
            /\ analyses[k].customerName = FieldOf(CaseFiles[k], "customer_name")
            /\ analyses[k].agentName = FieldOf(CaseFiles[k], "support_agent_name")

\* a completed run over two case files, one of them without some fields, and a
\* file of another extension
C1_Witness ==
    /\ pc = "done"
    /\ Len(listing) = 3
    /\ Len(analyses) = 2
    /\ analyses[1].customerId = "" /\ analyses[1].customerName = "n2"
    /\ analyses[2].customerId = "c1" /\ analyses[2].agentName = "g1"

\* C6: a run that ends in a failure (no credential, a file that does not load,
\* a failed analysis call, a failed serialization) leaves case_analyses.json
\* with exactly the content it had before the run.
C6_FailurePersistsNothing == pc \in {"aborted", "failed"} => outFile = prior

\* C8: the id of every record is the filename without the ".json" at its end and
\* without the "transcript_" at its start, everything else kept.
C8_CaseIdStripsEndAndStartOnly ==
    \A k \in DOMAIN analyses : analyses[k].id = StatedCaseId(CaseFiles[k])

\* what C10 says of the output file: it is written at most once, after the last
\* analysis call returned and its record was appended; a run that completes
\* wrote it exactly once, and it holds the full collection
WrittenOnceAtTheEnd ==
    /\ Len(SelectSeq(trace, IsWrite)) <= 1
    /\ \A i \in DOMAIN trace :
        IsWrite(trace[i]) =>
            /\ i = Len(trace)
            /\ FilesOf(SelectSeq(trace, IsApi)) = CaseFiles
            /\ FilesOf(SelectSeq(trace, IsAppend)) = CaseFiles
    /\ pc = "done" =>
        /\ Len(SelectSeq(trace, IsWrite)) = 1
        /\ outFile = FileOf(analyses)
        /\ Len(analyses) = Len(CaseFiles)

\* every analysis call directly follows the load of its file
AnalysisFollowsLoad ==
    \A i \in DOMAIN trace :
        IsApi(trace[i]) => i > 1 /\ IsLoad(trace[i - 1]) /\ trace[i - 1].file = trace[i].file

\* C10, as stated: in every run the analysis capability is invoked exactly once
\* for each listed file ending in ".json", after the load of that file, in
\* listing order, and for no other file; the output file is written at most
\* once, after the last invocation, and exactly once by a run that completes.
C10_AnalysisOncePerCaseFileInEveryRun ==
    /\ pc \in {"done", "failed"} => FilesOf(SelectSeq(trace, IsApi)) = CaseFiles
    /\ AnalysisFollowsLoad
    /\ WrittenOnceAtTheEnd

\* C10, amended: in every run the analysis capability is invoked at most once
\* for each listed file ending in ".json", after the load of that file, in
\* listing order, and for no other file, and exactly once for each in a run
\* that completes; the output file is written at most once, after the last
\* invocation, and exactly once by a run that completes.
C10_AnalysisAtMostOncePerCaseFile ==
    /\ IsPrefix(FilesOf(SelectSeq(trace, IsApi)), CaseFiles)
    /\ pc = "done" => FilesOf(SelectSeq(trace, IsApi)) = CaseFiles
    /\ AnalysisFollowsLoad
    /\ WrittenOnceAtTheEnd

\* a completed run that skipped a file, analysed two and replaced an older output
C10_Witness ==
    /\ pc = "done"
    /\ Len(listing) = 3
    /\ Len(SelectSeq(trace, IsApi)) = 2
    /\ prior = FileOf(<<OldRecord>>)
    /\ outFile = FileOf(analyses)
    /\ Len(analyses) = 2

(***************************************************************************)
(* What the specification says of the generated rules.                     *)
(***************************************************************************)
\* no entry of xs occurs twice
NoRepeats(xs) == \A i, j \in DOMAIN xs : i # j => xs[i] # xs[j]

\* the decimal numeral of n, 0 < n < 10000
Numeral(n) ==
    LET width == IF n < 10 THEN 1 ELSE IF n < 100 THEN 2 ELSE IF n < 1000 THEN 3 ELSE 4
        pow(k) == IF k = 0 THEN 1 ELSE IF k = 1 THEN 10 ELSE IF k = 2 THEN 100 ELSE 1000
        name == <<"0", "1", "2", "3", "4", "5", "6", "7", "8", "9">>
    IN [k \in 1..width |-> name[((n \div pow(width - k)) % 10) + 1]]

\* kw holds "unauthor" in some letter case
MentionsUnauthor(kw) == \E i \in DOMAIN kw : kw[i] \in {"unauthor", "Unauthor"}

\* C7: the 200-rule generator writes exactly 200 rules; rule i (from 0) has the
\* id of base rule (i mod the length of the base list) followed by "-" and i+1;
\* the ids are pairwise distinct; and a rule with a keyword containing
\* "unauthor" in any letter case has "unauthorised", "not recognized",
\* "fraudulent" and "suspicious" among its keywords, none of them twice.
C7_TwoHundredRulesWithSynonyms ==
    genRun = "wrote200" =>
        /\ Len(genOut) = 200
        /\ \A i \in 0..199 :
            genOut[i + 1].id = base[(i % Len(base)) + 1].id \o <<"-">> \o Numeral(i + 1)
        /\ \A i, j \in 1..200 : i # j => genOut[i].id # genOut[j].id
        /\ \A i \in 1..200 :
            (\E k \in DOMAIN genOut[i].keywords : MentionsUnauthor(genOut[i].keywords[k])) =>
                /\ {Unauthorised, NotRecognized, Fraudulent, Suspicious}
                       \subseteq Range(genOut[i].keywords)
                /\ NoRepeats(genOut[i].keywords)

\* 200 rules were written, one of them from a base rule with two keywords that
\* contain "unauthor", one capitalised, and base ids occur more than once
C7_Witness ==
    /\ genRun = "wrote200"
    /\ Len(base) = BaseLen
    /\ \E i \in 1..200 :
        /\ \E k \in DOMAIN genOut[i].keywords : Has(genOut[i].keywords[k], "Unauthor")
        /\ Suspicious \in Range(genOut[i].keywords)
    /\ \E j \in DOMAIN base :
        /\ "keywords" \in DOMAIN base[j]
        /\ Cardinality({k \in DOMAIN base[j].keywords :
                            MentionsUnauthor(base[j].keywords[k])}) = 2
    /\ \E i, j \in DOMAIN base : i # j /\ base[i].id = base[j].id

\* C9: whichever generator wrote the rules, from a base list whose rules have
\* keyword lists without repeats, no keyword occurs twice in the keyword list
\* of a generated rule.
C9_KeywordsDeduplicatedInBothVariants ==
    (/\ genRun \in {"wrote200", "wrote2000"}
     /\ \A j \in DOMAIN base :
            "keywords" \in DOMAIN base[j] => NoRepeats(base[j].keywords))
        => \A i \in DOMAIN genOut : NoRepeats(genOut[i].keywords)

====
